---- MODULE Spec2Model ----
(***************************************************************************)
(* A model of the explicit-free-list allocator of src/mm.c.                *)
(*                                                                         *)
(* The heap is a word-addressed memory: mem maps the byte address of every *)
(* word that has been written to the size_t value it holds.  All boundary  *)
(* tags and free-list links live in that memory, exactly as in the C code, *)
(* and every helper of mm.c is an operator that takes an allocator state   *)
(* (a record [mem, head, brk, ub, log]) and gives the state after the      *)
(* helper has run, reading and writing memory in the order of the C        *)
(* statements; log lists the requests the call has made to mem_sbrk.       *)
(* size_t and pointers are unsigned integers of SizeBits bits.             *)
(***************************************************************************)
EXTENDS Integers, Sequences, FiniteSets, TLC

(* ----------------------------- bounds -------------------------------- *)
\* width of size_t and of a pointer, in bits (64 in the build; narrowed so
\* that the arithmetic stays inside the model checker's integers)
SizeBits == 16
\* the primitive never lets the region grow beyond this many bytes
MaxHeap == 9200
\* the caller holds at most this many live pointers
MaxLive == 3
\* the caller makes at most this many calls after mm_init
MaxOps == 5

(* ------------------------ program constants -------------------------- *)
WSIZE == 8
DSIZE == 16
CHUNKSIZE == 4096
OVERHEAD == 16
MINSIZE == 32
NULL == 0

Mod == 2 ^ SizeBits
SIZE_MAX == Mod - 1

(* ------------------- the memory-extension primitive ------------------ *)
\* first byte of the region the primitive manages (16-byte aligned)
HeapBase == 4096
\* the value the primitive returns when it refuses: (void *)-1
MemFail == Mod - 1

\* mem_sbrk(incr): grow the region by incr bytes and return the address of
\* the first new byte, or refuse and leave the region as it is.
mem_sbrk(s, incr, grant) ==
  IF grant /\ s.brk + incr <= HeapBase + MaxHeap
    THEN [s |-> [s EXCEPT !.brk = @ + incr,
                          !.log = Append(@, [incr |-> incr, ret |-> s.brk])],
          ret |-> s.brk]
    ELSE [s |-> [s EXCEPT !.log = Append(@, [incr |-> incr, ret |-> MemFail])],
          ret |-> MemFail]

(* ------------------------------ macros ------------------------------- *)
PACK(size, alloc) == IF size % 2 = 1 /\ alloc = 1 THEN size ELSE size + alloc

PADD(p, val) == (p + val) % Mod
PSUB(p, val) == (p + Mod - (val % Mod)) % Mod

InRegion(s, p) == p % WSIZE = 0 /\ p >= HeapBase /\ p + WSIZE <= s.brk

\* a word that was never written holds an indeterminate value; Touch marks
\* the execution undefined when one of the words in A is read that way
GET(s, p) == IF p \in DOMAIN s.mem THEN s.mem[p] ELSE 0
Touch(s, A) == [s EXCEPT !.ub = @ \/ (\E a \in A : a \notin DOMAIN s.mem)]

\* a store outside the region obtained from mem_sbrk is undefined behaviour
PUT(s, p, val) ==
  [s EXCEPT !.mem = (p :> val) @@ s.mem, !.ub = @ \/ ~InRegion(s, p)]

GET_SIZE(s, p) == GET(s, p) - (GET(s, p) % 16)
GET_ALLOC(s, p) == GET(s, p) % 2

HDRP(bp) == PSUB(bp, WSIZE)
FTRP(s, bp) == PADD(bp, PSUB(GET_SIZE(s, HDRP(bp)), DSIZE))
NEXT_BLKP(s, bp) == PADD(bp, GET_SIZE(s, HDRP(bp)))
PREV_BLKP(s, bp) == PSUB(bp, GET_SIZE(s, PSUB(bp, DSIZE)))

GET_SUCC(s, bp) == GET(s, PADD(bp, WSIZE))
GET_PRED(s, bp) == GET(s, bp)

max(x, y) == IF x > y THEN x ELSE y

\* the two statement shapes that write a boundary tag, each evaluated in
\* the memory as it is when the statement runs:
\*   PUT(HDRP(bp), PACK(size, alloc));   PUT(FTRP(bp), PACK(size, alloc));
put_hdr(s, bp, size, alloc) == PUT(s, HDRP(bp), PACK(size, alloc))
put_ftr(s, bp, size, alloc) == PUT(s, FTRP(s, bp), PACK(size, alloc))

(* --------------------------- the free list --------------------------- *)
\* GET_SUCC(bp) = head;
insert_succ(s, bp) == PUT(s, PADD(bp, WSIZE), s.head)
\* if (head == NULL) head = bp; else GET_PRED(head) = bp;
insert_pred(s, bp) ==
  IF s.head = NULL THEN [s EXCEPT !.head = bp] ELSE PUT(s, s.head, bp)
\* GET_PRED(bp) = NULL; head = bp;
insert_head(s, bp) == [PUT(s, bp, NULL) EXCEPT !.head = bp]

insert_in_explicit_list(s, bp) ==
  insert_head(insert_pred(insert_succ(s, bp), bp), bp)

\* the four cases of remove_from_explicit_list, pred and succ already read
remove_links(s, pred, succ) ==
  IF (pred = NULL /\ succ = NULL) \/ pred = succ
    THEN (IF s.head # NULL THEN [s EXCEPT !.head = NULL] ELSE s)
  ELSE IF pred # NULL /\ succ = NULL
    THEN PUT(s, PADD(pred, WSIZE), NULL)
  ELSE IF pred = NULL /\ succ # NULL
    THEN [PUT(s, succ, NULL) EXCEPT !.head = succ]
  ELSE PUT(PUT(s, PADD(pred, WSIZE), succ), succ, pred)

remove_from_explicit_list(s, bp) ==
  remove_links(Touch(s, {bp, PADD(bp, WSIZE)}), GET_PRED(s, bp), GET_SUCC(s, bp))

(* ----------------------------- coalesce ------------------------------ *)
\* every helper gives [s |-> the state after, bp |-> the block pointer]

\* prev allocated, next free
coalesce_next_tags(s, bp, newsize) ==
  [s |-> put_ftr(put_hdr(s, bp, newsize, 0), bp, newsize, 0), bp |-> bp]
coalesce_next(s, bp) ==
  coalesce_next_tags(
    remove_from_explicit_list(s, NEXT_BLKP(s, bp)), bp,
    (GET_SIZE(s, HDRP(bp)) + GET_SIZE(s, HDRP(NEXT_BLKP(s, bp)))) % Mod)

\* prev free, next allocated
\* PUT(HDRP(PREV_BLKP(bp)), PACK(newsize, 0)); bp = PREV_BLKP(bp);
coalesce_prev_hdr(s, bp, newsize) ==
  PUT(s, HDRP(PREV_BLKP(s, bp)), PACK(newsize, 0))
coalesce_prev_bp(s, bp) == [s |-> s, bp |-> PREV_BLKP(s, bp)]
coalesce_prev_tags(s, bp, newsize) ==
  coalesce_prev_bp(
    coalesce_prev_hdr(put_ftr(s, bp, newsize, 0), bp, newsize), bp)
coalesce_prev(s, bp) ==
  coalesce_prev_tags(
    remove_from_explicit_list(s, PREV_BLKP(s, bp)), bp,
    (GET_SIZE(s, HDRP(bp)) + GET_SIZE(s, HDRP(PREV_BLKP(s, bp)))) % Mod)

\* both free
coalesce_both_tags(s, bp, newsize) ==
  [s |-> put_ftr(put_hdr(s, bp, newsize, 0), bp, newsize, 0), bp |-> bp]
\* bp = PREV_BLKP(bp);
coalesce_both_bp(s, bp, newsize) ==
  coalesce_both_tags(s, PREV_BLKP(s, bp), newsize)
\* remove_from_explicit_list(NEXT_BLKP(bp));
coalesce_both_next(s, bp) == remove_from_explicit_list(s, NEXT_BLKP(s, bp))
coalesce_both(s, bp) ==
  coalesce_both_bp(
    coalesce_both_next(remove_from_explicit_list(s, PREV_BLKP(s, bp)), bp), bp,
    (GET_SIZE(s, HDRP(bp)) + GET_SIZE(s, HDRP(PREV_BLKP(s, bp)))
       + GET_SIZE(s, HDRP(NEXT_BLKP(s, bp)))) % Mod)

\* insert_in_explicit_list(bp); return (bp);
coalesce_insert(m) == [s |-> insert_in_explicit_list(m.s, m.bp), bp |-> m.bp]

coalesce_cases(s, bp, prev_allocate, next_allocate) ==
  coalesce_insert(
    IF prev_allocate = 1 /\ next_allocate = 0 THEN coalesce_next(s, bp)
    ELSE IF prev_allocate = 0 /\ next_allocate = 1 THEN coalesce_prev(s, bp)
    ELSE IF prev_allocate = 0 /\ next_allocate = 0 THEN coalesce_both(s, bp)
    ELSE [s |-> s, bp |-> bp])

coalesce(s, bp) ==
  coalesce_cases(
    Touch(Touch(s, {HDRP(bp), PSUB(bp, DSIZE)}),
          {HDRP(NEXT_BLKP(s, bp)), HDRP(PREV_BLKP(s, bp))}),
    bp,
    GET_ALLOC(s, HDRP(PREV_BLKP(s, bp))),
    GET_ALLOC(s, HDRP(NEXT_BLKP(s, bp))))

(* ----------------------------- find_fit ------------------------------ *)
RECURSIVE fit_walk(_, _, _, _)
\* the loop of find_fit from cur_block; fuel runs out only on a list that
\* never ends, on which the loop does not terminate
fit_walk(s, asize, cur_block, fuel) ==
  IF cur_block = NULL THEN [bp |-> NULL, ub |-> FALSE]
  ELSE IF fuel = 0 THEN [bp |-> NULL, ub |-> TRUE]
  ELSE IF HDRP(cur_block) \notin DOMAIN s.mem
            \/ PADD(cur_block, WSIZE) \notin DOMAIN s.mem
         THEN [bp |-> NULL, ub |-> TRUE]
  ELSE IF asize <= GET_SIZE(s, HDRP(cur_block)) THEN [bp |-> cur_block, ub |-> FALSE]
  ELSE fit_walk(s, asize, GET_SUCC(s, cur_block), fuel - 1)

find_fit(s, asize) == fit_walk(s, asize, s.head, Cardinality(DOMAIN s.mem))

(* ---------------------------- extend_heap ---------------------------- *)
\* every helper gives [s |-> the state after, bp |-> block pointer or NULL]

\* size = words * WSIZE; if (words % 2 == 1) size += WSIZE;
extend_size(words) ==
  IF words % 2 = 1
    THEN (((words * WSIZE) % Mod) + WSIZE) % Mod
    ELSE (words * WSIZE) % Mod
\* PUT(HDRP(NEXT_BLKP(bp)), PACK(0, 1));
extend_epilogue(s, bp) == PUT(s, HDRP(NEXT_BLKP(s, bp)), PACK(0, 1))
extend_tags(s, bp, size) ==
  extend_epilogue(put_ftr(put_hdr(s, bp, size, 0), bp, size, 0), bp)

\* after bp = mem_sbrk(size), with the refusal tested the way mm_init tests
\* it (bp == NULL) instead of (long)bp < 0
extend_after_null_test(r, size) ==
  IF r.ret = NULL
    THEN [s |-> r.s, bp |-> NULL]
    ELSE coalesce(
           extend_tags(r.s, r.ret, IF size < MINSIZE THEN MINSIZE ELSE size),
           r.ret)

\* after bp = mem_sbrk(size): if ((long)bp < 0) return NULL; ...
extend_after(r, size) ==
  IF r.ret >= Mod \div 2
    THEN [s |-> r.s, bp |-> NULL]
    ELSE coalesce(
           extend_tags(r.s, r.ret, IF size < MINSIZE THEN MINSIZE ELSE size),
           r.ret)

extend_heap(s, words, grant) ==
  extend_after(mem_sbrk(s, extend_size(words), grant), extend_size(words))

(* ------------------------------- place ------------------------------- *)
\* PUT(HDRP(bp), ...); PUT(FTRP(bp), ...); remove_from_explicit_list(bp);
place_allocate(s, bp, size) ==
  remove_from_explicit_list(put_ftr(put_hdr(s, bp, size, 1), bp, size, 1), bp)
\* the remainder at nb: its tags, then coalesce(nb)
place_remainder(s, nb, newsize) ==
  coalesce(put_ftr(put_hdr(s, nb, newsize, 0), nb, newsize, 0), nb).s
\* bp = NEXT_BLKP(bp);
place_next(s, bp, newsize) == place_remainder(s, NEXT_BLKP(s, bp), newsize)

place_cases(s, bp, asize, currsize, newsize) ==
  IF asize = currsize \/ newsize < MINSIZE
    THEN place_allocate(s, bp, currsize)
    ELSE place_next(place_allocate(s, bp, asize), bp, newsize)

place(s, bp, asize) ==
  place_cases(Touch(s, {HDRP(bp)}), bp, asize, GET_SIZE(s, HDRP(bp)),
              (GET_SIZE(s, HDRP(bp)) + Mod - asize) % Mod)

(* ----------------------------- mm_malloc ----------------------------- *)
\* the adjusted block size of mm_malloc, in size_t arithmetic
adjusted(size) ==
  IF size <= DSIZE
    THEN DSIZE + OVERHEAD
    ELSE (DSIZE * (((size + OVERHEAD + (DSIZE - 1)) % Mod) \div DSIZE)) % Mod

\* every helper gives [s |-> the state after, ret |-> the pointer returned]

\* after bp = extend_heap(extendsize / WSIZE)
malloc_extended(e, asize) ==
  IF e.bp = NULL
    THEN [s |-> e.s, ret |-> NULL]
    ELSE [s |-> place(e.s, e.bp, asize), ret |-> e.bp]

\* after bp = find_fit(asize), with the heap always extended by the default
\* chunk instead of max(asize, CHUNKSIZE)
malloc_found_chunk_only(s, asize, f, grant) ==
  IF f.ub THEN [s |-> [s EXCEPT !.ub = TRUE], ret |-> NULL]
  ELSE IF f.bp # NULL THEN [s |-> place(s, f.bp, asize), ret |-> f.bp]
  ELSE malloc_extended(extend_heap(s, CHUNKSIZE \div WSIZE, grant), asize)

\* after bp = find_fit(asize); f.ub: the search itself was undefined
malloc_found(s, asize, f, grant) ==
  IF f.ub THEN [s |-> [s EXCEPT !.ub = TRUE], ret |-> NULL]
  ELSE IF f.bp # NULL THEN [s |-> place(s, f.bp, asize), ret |-> f.bp]
  ELSE malloc_extended(
         extend_heap(s, max(asize, CHUNKSIZE) \div WSIZE, grant), asize)

\* mm_malloc without the test for spurious requests (size <= 0)
mm_malloc_no_zero_test(s, size, grant) ==
  malloc_found(s, adjusted(size), find_fit(s, adjusted(size)), grant)

mm_malloc(s, size, grant) ==
  IF size <= 0
    THEN [s |-> s, ret |-> NULL]
    ELSE malloc_found(s, adjusted(size), find_fit(s, adjusted(size)), grant)

(* ------------------------------ mm_free ------------------------------ *)
\* PUT(HDRP(bp), PACK(GET_SIZE(HDRP(bp)), 0));
free_hdr(s, bp) == put_hdr(s, bp, GET_SIZE(s, HDRP(bp)), 0)
\* PUT(FTRP(bp), PACK(GET_SIZE(HDRP(bp)), 0));
free_ftr(s, bp) == put_ftr(s, bp, GET_SIZE(s, HDRP(bp)), 0)

mm_free(s, bp) ==
  IF bp = NULL
    THEN s
    ELSE coalesce(free_ftr(free_hdr(Touch(s, {HDRP(bp)}), bp), bp), bp).s

(* ------------------------------ mm_init ------------------------------ *)
\* every helper gives [s |-> state after, heap_start |-> ..., ret |-> 0 or -1]

\* the four words of the framing at heap_start, then head = NULL
init_frame(s, h) ==
  [PUT(PUT(PUT(PUT(s, h, 0),
               PADD(h, WSIZE), PACK(OVERHEAD, 1)),
           PADD(h, DSIZE), PACK(OVERHEAD, 1)),
       PADD(h, WSIZE + DSIZE), PACK(0, 1))
     EXCEPT !.head = NULL]

\* after bp = extend_heap(CHUNKSIZE / WSIZE)
init_extended(e, h) ==
  [s |-> e.s, heap_start |-> PADD(h, DSIZE),
   ret |-> IF e.bp = NULL THEN -1 ELSE 0]

\* after heap_start = mem_sbrk(4 * WSIZE)
init_after(r, grant2) ==
  IF r.ret = NULL
    THEN [s |-> r.s, heap_start |-> r.ret, ret |-> -1]
    ELSE init_extended(
           extend_heap(init_frame(r.s, r.ret), CHUNKSIZE \div WSIZE, grant2),
           r.ret)

mm_init(s, grant1, grant2) ==
  init_after(mem_sbrk(s, 4 * WSIZE, grant1), grant2)

(* ------------------------ the state machine -------------------------- *)
VARIABLES
  mem,         \* the words written so far: byte address -> value
  head,        \* the global head of the explicit free list
  heap_start,  \* the global pointer to the prologue's payload
  brk,         \* end of the region handed out by mem_sbrk
  ub,          \* TRUE once a call has run into undefined behaviour
  pc,          \* "start" before mm_init, then "ready" or "failed"
  live,        \* the caller's live pointers: pointer -> size it asked for
  last,        \* the call that has just completed
  nops         \* number of calls made after mm_init

vars == <<mem, head, heap_start, brk, ub, pc, live, last, nops>>

Empty == [a \in {} |-> 0]
St == [mem |-> mem, head |-> head, brk |-> brk, ub |-> ub, log |-> <<>>]

\* the sizes the caller asks for
Sizes == {1, 24, 4040, 4049, 5000, SIZE_MAX - 31, SIZE_MAX - 30, SIZE_MAX}

\* last records the call (op, arg), what it returned (ret), the requests it
\* made to mem_sbrk (sbrk) and, for mm_free, the size the freed pointer had
\* been asked with (n) and whether the call just before had returned it
NoCall == [op |-> "none", arg |-> 0, ret |-> 0, sbrk |-> <<>>,
           n |-> 0, fresh |-> FALSE]

Init ==
  /\ mem = Empty
  /\ head = NULL
  /\ heap_start = NULL
  /\ brk = HeapBase
  /\ ub = FALSE
  /\ pc = "start"
  /\ live = Empty
  /\ last = NoCall
  /\ nops = 0

SetState(s) ==
  /\ mem' = s.mem
  /\ head' = s.head
  /\ brk' = s.brk
  /\ ub' = s.ub

MmInit ==
  /\ pc = "start"
  /\ \E grant1 \in BOOLEAN, grant2 \in BOOLEAN :
       \E r \in {mm_init(St, grant1, grant2)} :
           /\ SetState(r.s)
           /\ heap_start' = r.heap_start
           /\ pc' = IF r.ret = 0 THEN "ready" ELSE "failed"
           /\ last' = [op |-> "init", arg |-> 0, ret |-> r.ret,
                       sbrk |-> r.s.log, n |-> 0, fresh |-> FALSE]
  /\ UNCHANGED <<live, nops>>

Ready == pc = "ready" /\ ~ub /\ nops < MaxOps

MmMallocIn(S) ==
  /\ Ready
  /\ \E size \in S, grant \in BOOLEAN :
       \E r \in {mm_malloc(St, size, grant)} :
           /\ r.ret # NULL => Cardinality(DOMAIN live) < MaxLive
           /\ SetState(r.s)
           /\ live' = IF r.ret = NULL THEN live
                      ELSE (r.ret :> size) @@ live
           /\ last' = [op |-> "malloc", arg |-> size, ret |-> r.ret,
                       sbrk |-> r.s.log, n |-> 0, fresh |-> FALSE]
  /\ nops' = nops + 1
  /\ UNCHANGED <<heap_start, pc>>

MmFree ==
  /\ Ready
  /\ \E bp \in DOMAIN live \cup {NULL} :
       /\ SetState(mm_free(St, bp))
       /\ live' = [p \in DOMAIN live \ {bp} |-> live[p]]
       /\ last' = [op |-> "free", arg |-> bp, ret |-> 0, sbrk |-> <<>>,
                   n |-> IF bp = NULL THEN 0 ELSE live[bp],
                   fresh |-> bp # NULL /\ last.op = "malloc" /\ last.ret = bp]
  /\ nops' = nops + 1
  /\ UNCHANGED <<heap_start, pc>>

MmMalloc == MmMallocIn(Sizes \cup {0})

Next == MmInit \/ MmMalloc \/ MmFree

Spec == Init /\ [][Next]_vars

\* the same program when the caller keeps to sizes whose adjusted size
\* does not wrap around in size_t
NoWrapSizes == {n \in Sizes : n + OVERHEAD + (DSIZE - 1) <= SIZE_MAX}
MmMallocNoWrap == MmMallocIn(NoWrapSizes \cup {0})
NextNoWrap == MmInit \/ MmMallocNoWrap \/ MmFree
SpecNoWrap == Init /\ [][NextNoWrap]_vars

\* extend_heap called on its own, with word counts that mm_init and
\* mm_malloc never pass as well as with theirs
Words == {0, 1, 2, 3, 4, 5, CHUNKSIZE \div WSIZE}

ExtendHeap ==
  /\ Ready
  /\ \E words \in Words, grant \in BOOLEAN :
       \E r \in {extend_heap(St, words, grant)} :
           /\ SetState(r.s)
           /\ last' = [op |-> "extend", arg |-> words, ret |-> r.bp,
                       sbrk |-> r.s.log, n |-> 0, fresh |-> FALSE]
  /\ nops' = nops + 1
  /\ UNCHANGED <<heap_start, pc, live>>

NextExtend == MmInit \/ MmMallocNoWrap \/ MmFree \/ ExtendHeap
SpecExtend == Init /\ [][NextExtend]_vars

(* ------------------------ reading the heap --------------------------- *)
HdrOK(bp) == HDRP(bp) \in DOMAIN mem /\ InRegion(St, HDRP(bp))
Size(bp) == GET_SIZE(St, HDRP(bp))
Alloc(bp) == GET_ALLOC(St, HDRP(bp))

RECURSIVE WalkIn(_, _, _, _)
\* the blocks met in state s from bp on by adding the sizes in the
\* headers, as check_heap walks them; end is the pointer whose header has
\* size 0, or NULL when the walk runs out of the region
WalkIn(s, bp, acc, fuel) ==
  IF HDRP(bp) \notin DOMAIN s.mem \/ ~InRegion(s, HDRP(bp)) \/ fuel = 0
    THEN [blocks |-> acc, end |-> NULL]
  ELSE IF GET_SIZE(s, HDRP(bp)) = 0 THEN [blocks |-> acc, end |-> bp]
  ELSE WalkIn(s, PADD(bp, GET_SIZE(s, HDRP(bp))), Append(acc, bp), fuel - 1)

Walk(bp, acc, fuel) == WalkIn(St, bp, acc, fuel)

HeapWalk == Walk(heap_start, <<>>, (brk - HeapBase) \div DSIZE + 1)
\* the blocks after the prologue
Blocks == Tail(HeapWalk.blocks)

RECURSIVE ListIn(_, _, _, _)
\* the pointers met in state s from cur by following successor links
ListIn(s, cur, acc, fuel) ==
  IF cur = NULL \/ fuel = 0 THEN acc
  ELSE IF PADD(cur, WSIZE) \notin DOMAIN s.mem THEN Append(acc, cur)
  ELSE ListIn(s, GET_SUCC(s, cur), Append(acc, cur), fuel - 1)

ListFrom(cur, acc, fuel) == ListIn(St, cur, acc, fuel)

\* the pointers met from head by following successor links
FreeList == ListFrom(head, <<>>, Len(HeapWalk.blocks) + 1)

Count(seq, x) == Cardinality({i \in 1..Len(seq) : seq[i] = x})
Range(seq) == {seq[i] : i \in 1..Len(seq)}

\* a call has completed on an initialised heap without undefined behaviour
Observed == pc = "ready" /\ ~ub

TilingHolds ==
  /\ heap_start = HeapBase + DSIZE
  /\ HdrOK(heap_start)
  /\ mem[HDRP(heap_start)] = PACK(OVERHEAD, 1)
  /\ HeapWalk.end # NULL
  /\ HDRP(HeapWalk.end) = brk - WSIZE
  /\ mem[HDRP(HeapWalk.end)] = PACK(0, 1)

MembershipHolds ==
  /\ \A i \in 1..Len(Blocks) :
       Count(FreeList, Blocks[i]) = (IF Alloc(Blocks[i]) = 0 THEN 1 ELSE 0)
  /\ Range(FreeList) \subseteq Range(Blocks)

NoAdjacentFree ==
  \A i \in 1..(Len(Blocks) - 1) : Alloc(Blocks[i]) = 1 \/ Alloc(Blocks[i + 1]) = 1

TagsAgree ==
  \A i \in 1..Len(HeapWalk.blocks) :
    LET bp == HeapWalk.blocks[i]
    IN  /\ FTRP(St, bp) \in DOMAIN mem
        /\ mem[FTRP(St, bp)] = mem[HDRP(bp)]

\* the bytes of two blocks, header to footer, do not meet
DisjointIn(s, p, q) ==
  \/ HDRP(p) + GET_SIZE(s, HDRP(p)) <= HDRP(q)
  \/ HDRP(q) + GET_SIZE(s, HDRP(q)) <= HDRP(p)
\* the words of the payload of block bp, between its header and its footer
PayloadWords(bp) ==
  {a \in bp..(bp + Size(bp) - DSIZE - 1) : (a - bp) % WSIZE = 0}

MallocReturned == last.op = "malloc" /\ last.ret # NULL
\* the call asked mem_sbrk for more bytes and was refused
Refused(l) == Len(l.sbrk) > 0 /\ l.sbrk[Len(l.sbrk)].ret = MemFail

(* ------------------------------ claims ------------------------------- *)

\* C1: between calls, after a successful mm_init, the heap begins with the
\* allocated 16-byte prologue and the walk by header sizes ends exactly on
\* a size-0 allocated epilogue header that is the last word of the region.
C1_Tiling == Observed => TilingHolds

\* C2: between calls a block of the heap is free if and only if it is met
\* exactly once from head by successor links; no allocated block and
\* neither sentinel is in the list.
C2_FreeListMembership == Observed => MembershipHolds

\* C3: after any completed call no two blocks adjacent in address order are
\* both free.
C3_NoAdjacentFree == Observed => NoAdjacentFree

\* C4: the block of a pointer returned non-null by mm_malloc is disjoint
\* from the block of every pointer that is live at that moment, and the
\* pointer differs from every live pointer.
C4_ReturnedBlockDisjoint ==
  [][(Observed /\ MallocReturned' /\ ~ub') =>
       /\ last'.ret \notin DOMAIN live
       /\ \A p \in DOMAIN live : DisjointIn(St', p, last'.ret)]_vars

\* C4 (first half): the pointer returned non-null by mm_malloc is the
\* payload address of a block that was free immediately before the call.
C4_ReturnedBlockWasFree ==
  [][(Observed /\ MallocReturned') =>
       (last'.ret \in Range(Blocks) /\ Alloc(last'.ret) = 0)]_vars

\* C5: when mm_malloc(n) returns non-null, the usable size of the block
\* (its size minus the 16 bytes of header and footer) is at least n and at
\* most n + 15 + 16.
C5_UsableSize ==
  (Observed /\ MallocReturned) =>
    /\ Size(last.ret) - OVERHEAD >= last.arg
    /\ Size(last.ret) - OVERHEAD <= last.arg + (DSIZE - 1) + OVERHEAD

\* C6: a call of mm_malloc or mm_free on other blocks writes no payload
\* word of a block that stays allocated: every word between that block's
\* header and footer holds after the call what it held before.
C6_PayloadUntouched ==
  [][(Observed /\ last'.op \in {"malloc", "free"}) =>
       \A p \in DOMAIN live \cap DOMAIN live' :
         \A a \in PayloadWords(p) :
           /\ a \in DOMAIN mem <=> a \in DOMAIN mem'
           /\ a \in DOMAIN mem => mem'[a] = mem[a]]_vars

\* C7: between calls every block from the prologue up to the epilogue has
\* a footer word equal to its header word.
C7_HeaderEqualsFooter == Observed => TagsAgree

\* C8: if p = mm_malloc(X) is non-null, then mm_free(p) immediately
\* followed by mm_malloc(X) completes, returns p again and does not grow
\* the region.
C8_FreeThenMallocReuses ==
  [][/\ (Observed /\ MallocReturned /\ last'.op = "free"
           /\ last'.arg = last.ret) => ~ub'
     /\ (Observed /\ last.op = "free" /\ last.fresh
           /\ last'.op = "malloc" /\ last'.arg = last.n) =>
          (~ub' /\ last'.ret = last.arg /\ brk' = brk)]_vars

\* C9: when mm_malloc(n), n > 0, finds no fit and mem_sbrk refuses the
\* growth, mm_malloc returns NULL and the region size, every word of the
\* heap and the free-list head are what they were before the call.
C9_FailedMallocChangesNothing ==
  [][(Observed /\ last'.op = "malloc" /\ last'.arg > 0 /\ Refused(last')) =>
       /\ last'.ret = NULL
       /\ mem' = mem /\ head' = head /\ brk' = brk
       /\ heap_start' = heap_start /\ ub' = ub]_vars

\* a failed extension has been observed on a heap that holds a live block
\* and a free block too small for the request
C9_Witness ==
  /\ Observed /\ last.op = "malloc" /\ last.arg > 0 /\ Refused(last)
  /\ last.ret = NULL /\ head # NULL /\ DOMAIN live # {}

\* C10: mm_init returns -1 without writing any heap word when mem_sbrk
\* refuses the 32-byte framing request, and returns -1 when mem_sbrk grants
\* the framing but refuses the first chunk.
C10_InitFailure ==
  /\ (last.op = "init" /\ last.sbrk[1].ret = MemFail) =>
        (last.ret = -1 /\ mem = Empty)
  /\ (last.op = "init" /\ Len(last.sbrk) = 2 /\ last.sbrk[2].ret = MemFail) =>
        last.ret = -1

\* C10 (second half alone): framing granted, first chunk refused
C10_ChunkRefused ==
  (last.op = "init" /\ Len(last.sbrk) = 2 /\ last.sbrk[1].ret # MemFail
     /\ last.sbrk[2].ret = MemFail) => (last.ret = -1 /\ ~ub)

\* some element of the free list is at least asize bytes
FitExists(asize) == \E i \in 1..Len(FreeList) : Size(FreeList[i]) >= asize

BlockShapeHolds ==
  \A i \in 1..Len(Blocks) :
    /\ Blocks[i] % DSIZE = 0
    /\ Size(Blocks[i]) % DSIZE = 0
    /\ Size(Blocks[i]) >= MINSIZE

\* C12: between completed calls every block between prologue and epilogue
\* has a payload address that is a multiple of 16, a size that is a
\* multiple of 16 and a size of at least 32, for every request size n > 0.
C12_BlockShape == (pc = "ready" /\ last.op = "malloc") => BlockShapeHolds

\* C12 restricted to the calls that stay within defined behaviour
C12_BlockShapeDefined == Observed => BlockShapeHolds

\* C19: for every request size n >= 1 the adjusted block size computed by
\* mm_malloc is a multiple of 16, at least 32 and at least n + 16.
C19_AdjustedSize ==
  (last.op = "malloc" /\ last.arg > 0) =>
    /\ adjusted(last.arg) % DSIZE = 0
    /\ adjusted(last.arg) >= MINSIZE
    /\ adjusted(last.arg) >= last.arg + OVERHEAD

\* C13: mm_malloc(0) returns NULL, mm_free(NULL) returns normally, and
\* each of the two calls leaves the region size, every word of the heap
\* and the free-list head unchanged and makes no request to mem_sbrk.
C13_DegenerateCalls ==
  [][(Observed /\ (\/ last'.op = "malloc" /\ last'.arg = 0
                   \/ last'.op = "free" /\ last'.arg = NULL)) =>
       /\ last'.op = "malloc" => last'.ret = NULL
       /\ last'.sbrk = <<>>
       /\ mem' = mem /\ head' = head /\ brk' = brk
       /\ heap_start' = heap_start /\ ub' = ub /\ live' = live]_vars

\* mm_malloc(0) has returned on a heap with a live block and a free block
C13_Witness ==
  /\ Observed /\ last.op = "malloc" /\ last.arg = 0 /\ last.ret = NULL
  /\ head # NULL /\ DOMAIN live # {}

\* the place of block bp in the sequence of blocks W, 0 when it is not there
IndexOf(W, bp) ==
  IF \E i \in 1..Len(W) : W[i] = bp
    THEN CHOOSE i \in 1..Len(W) : W[i] = bp
    ELSE 0

\* what coalesce is to make of the block B with predecessor P and successor
\* S in address order: the blocks that merge, the address and the size of
\* the merged block, and the blocks that lose their identity
MergeOf(P, B, S) ==
  [parts |-> {B} \cup (IF Alloc(P) = 0 THEN {P} ELSE {})
                 \cup (IF Alloc(S) = 0 THEN {S} ELSE {}),
   start |-> IF Alloc(P) = 0 THEN P ELSE B,
   size |-> Size(B) + (IF Alloc(P) = 0 THEN Size(P) ELSE 0)
                    + (IF Alloc(S) = 0 THEN Size(S) ELSE 0),
   absorbed |-> (IF Alloc(P) = 0 THEN {B} ELSE {})
                  \cup (IF Alloc(S) = 0 THEN {S} ELSE {})]

\* the i-th block of the walk W with its neighbours; the successor of the
\* last block is the epilogue e
MergeAt(W, e, i) ==
  MergeOf(W[i - 1], W[i], IF i < Len(W) THEN W[i + 1] ELSE e)

\* the walk and the free list of a state s of the allocator
HeapWalkOf(s) ==
  WalkIn(s, heap_start, <<>>, (s.brk - HeapBase) \div DSIZE + 1)
FreeListOf(s) ==
  ListIn(s, s.head, <<>>, Len(HeapWalkOf(s).blocks) + 1)

\* the state t, with heap blocks W2 and list entries L2, is what the merge
\* m makes of a state s with heap blocks W and list entries L
MergedIn(m, s, W, L, t, W2, L2) ==
  /\ ~t.ub
  /\ Range(W2) = (W \ m.parts) \cup {m.start}
  /\ GET(t, HDRP(m.start)) = PACK(m.size, 0)
  /\ GET(t, m.start + m.size - DSIZE) = PACK(m.size, 0)
  /\ Count(L2, m.start) = 1
  /\ Range(L2) = (L \ m.parts) \cup {m.start}
  /\ \A x \in Range(L2) :
       /\ GET_PRED(t, x) \notin m.absorbed
       /\ GET_SUCC(t, x) \notin m.absorbed
  /\ \A x \in W \ m.parts :
       /\ GET(t, HDRP(x)) = GET(s, HDRP(x))
       /\ GET(t, FTRP(s, x)) = GET(s, FTRP(s, x))

Merged(m, s, W, L, t) ==
  MergedIn(m, s, W, L, t, HeapWalkOf(t).blocks, FreeListOf(t))

\* freeing the i-th block of the walk W of state s has led to state t
FreeCoalesces(s, W, e, i, t) ==
  i >= 2 => Merged(MergeAt(W, e, i), s, Range(W), Range(FreeList), t)

\* C14: after a valid mm_free(p) on block B there is one free block made of
\* B, of its predecessor if that was free and of its successor if that was
\* free; it starts at the predecessor when that was free and at B
\* otherwise, is once in the free list, the absorbed blocks are in the list
\* no more and no link of a list element points to them, and the tags of
\* every other block are unchanged.
C14_FreeCoalesces ==
  [][(Observed /\ last'.op = "free" /\ last'.arg # NULL) =>
       \E t \in {St'} :
         FreeCoalesces(St, HeapWalk.blocks, HeapWalk.end,
                       IndexOf(HeapWalk.blocks, last'.arg), t)]_vars

\* three adjacent 32-byte blocks were allocated, the middle one and then
\* the first were freed: one free block of 64 bytes lies before the third
C14_Witness ==
  /\ Observed /\ last.op = "free" /\ last.arg = HeapBase + 2 * DSIZE
  /\ Alloc(last.arg) = 0 /\ Size(last.arg) = 2 * MINSIZE
  /\ head = last.arg
  /\ DOMAIN live = {last.arg + 2 * MINSIZE}

\* the header and the footer of the block at bp in state t are both val
TagsAre(t, bp, size, val) ==
  GET(t, HDRP(bp)) = val /\ GET(t, bp + size - DSIZE) = val

\* the size of the free block that mm_malloc hands to place when it
\* returns bp: the list element found by find_fit, or else the block that
\* extend_heap returns, which ends where the grown region ends
HandedSize(bp, asize, newbrk) ==
  IF FitExists(asize) THEN Size(bp) ELSE newbrk - bp

\* state t, with list entries L2, holds at bp an allocated block of exactly
\* asize bytes that is not in the list, and whatever is left over of the
\* cur bytes of the original free block is a well-formed free block in the
\* list
PlacedExactly(t, L2, bp, asize, cur) ==
  /\ TagsAre(t, bp, asize, PACK(asize, 1))
  /\ bp \notin Range(L2)
  /\ cur # asize =>
       /\ cur - asize >= MINSIZE
       /\ TagsAre(t, bp + asize, cur - asize, PACK(cur - asize, 0))
       /\ Count(L2, bp + asize) = 1

\* C15: after every mm_malloc that returns non-null the returned block has
\* exactly the adjusted size and is not in the free list, and any leftover
\* bytes of the original free block form a well-formed free block (size
\* >= 32, header equal to footer, allocated bit clear) that is in the list.
C15_PlacedExactly ==
  [][(Observed /\ MallocReturned') =>
       \E t \in {St'} :
         PlacedExactly(t, FreeListOf(t), last'.ret, adjusted(last'.arg),
                       HandedSize(last'.ret, adjusted(last'.arg), brk'))]_vars

\* the two cases of place on a free block of cur bytes at bp, whose
\* successor in address order is free with nextfree bytes (0 when it is
\* allocated): r = cur - asize
PlacedByCase(t, L2, bp, asize, cur, nextfree) ==
  /\ asize <= cur
  /\ bp \notin Range(L2)
  /\ IF cur - asize < MINSIZE
       THEN /\ TagsAre(t, bp, cur, PACK(cur, 1))
            /\ bp + cur \notin Range(L2) \/ nextfree > 0
       ELSE /\ TagsAre(t, bp, asize, PACK(asize, 1))
            /\ TagsAre(t, bp + asize, cur - asize + nextfree,
                       PACK(cur - asize + nextfree, 0))
            /\ Count(L2, bp + asize) = 1

\* the bytes of a free successor of the block of cur bytes at bp
NextFreeSize(bp, cur) ==
  IF HDRP(bp + cur) \in DOMAIN mem /\ Alloc(bp + cur) = 0
    THEN Size(bp + cur) ELSE 0

\* C16: place chooses by r = (free block size - adjusted size): with r = 0
\* or r < 32 the whole block is marked allocated at its original size and
\* removed from the list; with r >= 32 the block is shrunk to the adjusted
\* size, marked allocated and removed from the list, and a free block of r
\* bytes right after it (merged with a free successor) is tagged and in the
\* list.  The adjusted size never exceeds the size of the block handed to
\* place.
C16_PlaceCases ==
  [][(Observed /\ MallocReturned') =>
       \E t \in {St'} :
         PlacedByCase(t, FreeListOf(t), last'.ret, adjusted(last'.arg),
                      HandedSize(last'.ret, adjusted(last'.arg), brk'),
                      IF FitExists(adjusted(last'.arg))
                        THEN NextFreeSize(last'.ret, Size(last'.ret))
                        ELSE 0)]_vars

\* the first element of the list L that is at least asize bytes
FirstFit(L, asize) ==
  L[CHOOSE i \in 1..Len(L) :
      /\ Size(L[i]) >= asize
      /\ \A j \in 1..(i - 1) : Size(L[j]) < asize]

\* C17: mm_malloc(n) uses first fit in list order: when some list element
\* is at least the adjusted size, the block it allocates from is the first
\* such element met from head by successor links; and the list is most
\* recently inserted first: after mm_free(p) the head of the list is the
\* free block that contains p.
C17_FirstFitAndLifo ==
  [][/\ (Observed /\ last'.op = "malloc" /\ last'.arg > 0
           /\ FitExists(adjusted(last'.arg))) =>
          last'.ret = FirstFit(FreeList, adjusted(last'.arg))
     /\ (Observed /\ last'.op = "free" /\ last'.arg # NULL) =>
          /\ head' # NULL
          /\ head' <= last'.arg
          /\ last'.arg < head' + GET_SIZE(St', HDRP(head'))
          /\ GET_ALLOC(St', HDRP(head')) = 0]_vars

\* mm_malloc has skipped a list head that was too small and taken the
\* second element of the list
C17_Witness ==
  /\ Observed /\ MallocReturned /\ last.arg = 24
  /\ head = last.ret + adjusted(24)
  /\ GET_SUCC(St, head) # NULL /\ GET_SUCC(St, head) < last.ret
  /\ Size(GET_SUCC(St, head)) = MINSIZE

\* the sequence L, read from the memory of state s, is a well-formed
\* doubly linked list from hd: no entry twice, the first entry has no
\* predecessor, the last no successor, and each entry is the predecessor
\* of its successor
WellLinked(s, hd, L) ==
  /\ hd = NULL <=> Len(L) = 0
  /\ \A i \in 1..Len(L) : \A j \in 1..Len(L) : L[i] = L[j] => i = j
  /\ \A i \in 1..Len(L) :
       /\ L[i] \in DOMAIN s.mem /\ PADD(L[i], WSIZE) \in DOMAIN s.mem
       /\ GET_PRED(s, L[i]) = (IF i = 1 THEN NULL ELSE L[i - 1])
       /\ GET_SUCC(s, L[i]) = (IF i = Len(L) THEN NULL ELSE L[i + 1])

\* C18: between completed calls the free list is a well-formed, acyclic
\* doubly linked list: head is NULL exactly when no block is free, the
\* head's predecessor link and the last element's successor link are NULL,
\* each element is the predecessor of its successor, and no block is in
\* the list twice.
C18_ListWellFormed ==
  Observed =>
    /\ WellLinked(St, head, FreeList)
    /\ head = NULL <=> \A i \in 1..Len(Blocks) : Alloc(Blocks[i]) = 1

\* a list of two free blocks after a call of mm_free
C18_Witness ==
  /\ Observed /\ Len(FreeList) = 2 /\ WellLinked(St, head, FreeList)
  /\ last.op = "free"

\* C20: for every word count passed to extend_heap, the counts of 0 to 3
\* words included, a successful extension leaves a free block of at least
\* 32 bytes, a multiple of 16, whose header, footer and new epilogue header
\* lie inside the region as it is after the mem_sbrk call, the epilogue
\* being the last word of the region; the bytes asked of mem_sbrk are the
\* bytes the new block adds.
C20_ExtensionInsideRegion ==
  (pc = "ready" /\ last.op = "extend" /\ last.ret # NULL) =>
    /\ ~ub
    /\ Alloc(last.ret) = 0
    /\ Size(last.ret) >= MINSIZE /\ Size(last.ret) % DSIZE = 0
    /\ InRegion(St, HDRP(last.ret))
    /\ InRegion(St, FTRP(St, last.ret))
    /\ InRegion(St, HDRP(NEXT_BLKP(St, last.ret)))
    /\ HDRP(NEXT_BLKP(St, last.ret)) = brk - WSIZE
    /\ GET(St, brk - WSIZE) = PACK(0, 1)
    /\ last.sbrk[1].incr = max(extend_size(last.arg), MINSIZE)

\* C20 for the word counts of at least 32 bytes
C20_ExtensionOfFourWords ==
  (pc = "ready" /\ last.op = "extend" /\ last.ret # NULL /\ last.arg >= 4) =>
    /\ ~ub /\ Alloc(last.ret) = 0 /\ Size(last.ret) >= MINSIZE
    /\ HDRP(NEXT_BLKP(St, last.ret)) = brk - WSIZE
    /\ GET(St, brk - WSIZE) = PACK(0, 1)
    /\ last.sbrk[1].incr = extend_size(last.arg)

====
